---- MODULE Spec2Model ----
(***************************************************************************)
(* Taskbuddy: the reminder scheduler (poll tick, snooze, mark-as-done,     *)
(* dismiss) and the tool-call dispatcher of the App component, as a state  *)
(* machine.  The App component modelled is the one of                      *)
(* src/components/ChatBubble.tsx, lines 298-1152 (src/App.tsx is an        *)
(* earlier version of the same component with fewer tools).                *)
(*                                                                         *)
(* Time is in milliseconds since the component was mounted.  A timestamp   *)
(* string (dueDate, a reminder, completedAt, ...) is modelled by the       *)
(* instant it denotes; `undefined` is NoTime.  A task id `task-<ms>` is    *)
(* modelled by <ms>.  React state is modelled by the variables; a handler  *)
(* closure reads the state of the render it was created in, which is why   *)
(* a turn carries the task list captured when it was submitted.            *)
(***************************************************************************)
EXTENDS Integers, Sequences, FiniteSets, TLC

\* ---------------------------------------------------------------- bounds
MaxSteps == 24          \* Spec: the clock stops after MaxSteps grid steps
ChatSteps == 4          \* SpecChat: the clock stops after ChatSteps grid steps
MaxTasks == 2           \* createTask is not issued beyond this store size
MaxTurns == 1           \* turns submitted in one run
MaxCalls == 2           \* tool invocations carried by one chunk
MaxChunks == 1          \* chunks of one response stream
LateSteps == 20         \* SpecFrame: the turn is submitted after LateSteps grid steps

\* ------------------------------------------------------ program constants
CHECK_WINDOW_MS == 30 * 1000
POLL_INTERVAL_MS == 30 * 1000
SNOOZE_DURATION_MS == 5 * 60 * 1000
AnalysisMinTasks == 5
MessageLimit == 100

TimeStep == CHECK_WINDOW_MS \div 2
MaxTime == MaxSteps * TimeStep

NoTime == 0 - 1
NoText == ""

VARIABLES
    now,                 \* Date.now()
    tasks,               \* useState<Task[]>
    notificationTask,    \* useState<Task | null>: <<>> or <<task>>
    snoozedTasks,        \* useState<Set<string>>
    triggeredReminders,  \* useState<Set<string>>: keys <<task id, reminder>>
    nextTick,            \* when the setInterval of the reminder effect fires next
    snoozeTimers,        \* pending setTimeout callbacks of handleNotificationSnooze
    isLoading,           \* useState<boolean>
    messages,            \* useState<Message[]>
    turns,               \* handleSubmit invocations in flight
    turnCount,           \* turns submitted so far
    fired,               \* history: key -> number of times a tick surfaced it
    activeKey,           \* history: key of the reminder behind notificationTask
    snoozedAt            \* history: snoozed task id -> time at which it was snoozed

schedVars == <<notificationTask, snoozedTasks, triggeredReminders, nextTick, snoozeTimers>>
histVars == <<fired, activeKey, snoozedAt>>
turnVars == <<isLoading, messages, turns, turnCount>>
vars == <<now, tasks, schedVars, turnVars, histVars>>

\* --------------------------------------------------------------- helpers
Range(s) == {s[i] : i \in DOMAIN s}

Ids(list) == {list[i].id : i \in DOMAIN list}

\* Array.prototype.find: the first element with the id, as <<>> or <<task>>
Find(list, id) ==
    LET hits == {i \in DOMAIN list : list[i].id = id}
    IN IF hits = {} THEN <<>>
       ELSE <<list[CHOOSE i \in hits : \A j \in hits : i <= j]>>

\* Array.prototype.filter
RECURSIVE Filter(_, _)
Filter(list, id) ==
    IF list = <<>> THEN <<>>
    ELSE IF Head(list).id = id THEN Filter(Tail(list), id)
    ELSE <<Head(list)>> \o Filter(Tail(list), id)

NoNotification == <<>>

\* the effect of lines 465-500 runs again when one of its dependencies changes:
\* the old interval is cleared and a new one started
RestartInterval == now + POLL_INTERVAL_MS

\* ------------------------------------------------------------- the tasks
NewTask(id, text, dueDate, priority, category, type, custom, createdAt) ==
    [id |-> id, text |-> text, isCompleted |-> FALSE, completedAt |-> NoTime,
     dueDate |-> dueDate, priority |-> priority, reminders |-> <<>>,
     createdAt |-> createdAt, category |-> category, type |-> type,
     customNotificationTime |-> custom]

\* ------------------------------------------------------ ReminderScheduler
\* a window test that would fire any reminder that is past
IsDue_NoLowerBound(r, t) == r <= t

\* line 484: reminderTime <= now && reminderTime > now - CHECK_WINDOW_MS
IsDue(r, t) == r <= t /\ r > t - CHECK_WINDOW_MS

\* line 481: `${task.id}-${reminderTimestamp}`
ReminderId(task, r) == <<task.id, r>>

\* a skip rule that would look at the snoozed set alone
Skipped_IgnoreCompleted(task) == task.id \in snoozedTasks

\* line 475: task.isCompleted || snoozedTasks.has(task.id) || !task.reminders
\* (a task always holds a reminder list here, empty when it has no reminder)
Skipped(task) == task.isCompleted \/ task.id \in snoozedTasks

\* a test that would not look at the triggered set
Qualifies_Untracked(task, r) == IsDue(r, now)

\* line 484, with the triggered check
Qualifies(task, r) == IsDue(r, now) /\ ReminderId(task, r) \notin triggeredReminders

\* lines 479-489: index of the first reminder of the task that qualifies, or 0
FirstDue(task) ==
    LET hits == {j \in DOMAIN task.reminders : Qualifies(task, task.reminders[j])}
    IN IF hits = {} THEN 0 ELSE CHOOSE j \in hits : \A k \in hits : j <= k

\* a scan that would keep the last task with a qualifying reminder
FirstMatch_Last ==
    LET hits == {i \in DOMAIN tasks : ~Skipped(tasks[i]) /\ FirstDue(tasks[i]) > 0}
    IN IF hits = {} THEN 0 ELSE CHOOSE i \in hits : \A k \in hits : i >= k

\* lines 474-491: index of the first task with a qualifying reminder, or 0
FirstMatch ==
    LET hits == {i \in DOMAIN tasks : ~Skipped(tasks[i]) /\ FirstDue(tasks[i]) > 0}
    IN IF hits = {} THEN 0 ELSE CHOOSE i \in hits : \A k \in hits : i <= k

\* a tick that would scan whether or not a notification is active
TickBlocked_Never == FALSE

\* line 467: if (notificationTask) return
TickBlocked == notificationTask # NoNotification

Count(f, key) == IF key \in DOMAIN f THEN f[key] ELSE 0

Counted(f, key) ==
    [k \in DOMAIN f \cup {key} |-> IF k = key THEN Count(f, key) + 1 ELSE f[k]]

\* checkReminders, run by the interval timer
PollTick ==
    /\ nextTick = now
    /\ nextTick' = now + POLL_INTERVAL_MS
    /\ IF TickBlocked \/ FirstMatch = 0
       THEN UNCHANGED <<notificationTask, triggeredReminders, fired, activeKey>>
       ELSE LET task == tasks[FirstMatch]
                r == task.reminders[FirstDue(task)]
            IN /\ triggeredReminders' = triggeredReminders \cup {ReminderId(task, r)}
               /\ notificationTask' = <<task>>
               /\ fired' = Counted(fired, ReminderId(task, r))
               /\ activeKey' = <<ReminderId(task, r)>>
    /\ UNCHANGED <<now, tasks, snoozedTasks, snoozeTimers, turnVars, snoozedAt>>

\* a toggle that would flip the flag alone
ToggleCompleted_FlagOnly(task) == [task EXCEPT !.isCompleted = ~task.isCompleted]

\* handleToggleTask, lines 826-846
ToggleCompleted(task) ==
    [task EXCEPT !.isCompleted = ~task.isCompleted,
                 !.completedAt = IF ~task.isCompleted THEN now ELSE NoTime]

Toggled(list, id) ==
    [i \in DOMAIN list |-> IF list[i].id = id THEN ToggleCompleted(list[i]) ELSE list[i]]

\* the goals view: TaskItem onClick -> onToggleTask(task.id)
ToggleTask(id) ==
    /\ id \in Ids(tasks)
    /\ tasks' = Toggled(tasks, id)
    /\ nextTick' = RestartInterval
    /\ UNCHANGED <<now, notificationTask, snoozedTasks, triggeredReminders, snoozeTimers,
                   turnVars, histVars>>

\* handleNotificationMarkAsDone, lines 997-1000
MarkAsDone ==
    /\ notificationTask # NoNotification
    /\ tasks' = Toggled(tasks, notificationTask[1].id)
    /\ notificationTask' = NoNotification
    /\ activeKey' = <<>>
    /\ nextTick' = RestartInterval
    /\ UNCHANGED <<now, snoozedTasks, triggeredReminders, snoozeTimers, turnVars,
                   fired, snoozedAt>>

\* a snooze that would last one poll window
SnoozeDeadline_Short == now + CHECK_WINDOW_MS

\* handleNotificationSnooze, lines 1002-1015
SnoozeDeadline == now + SNOOZE_DURATION_MS

\* a snooze that would re-arm the reminder it snoozes
Snooze_Rearm ==
    /\ notificationTask # NoNotification
    /\ LET id == notificationTask[1].id
       IN /\ snoozedTasks' = snoozedTasks \cup {id}
          /\ snoozeTimers' = snoozeTimers \cup {[id |-> id, at |-> SnoozeDeadline]}
          /\ snoozedAt' = [k \in DOMAIN snoozedAt \cup {id} |->
                              IF k = id THEN now ELSE snoozedAt[k]]
    /\ notificationTask' = NoNotification
    /\ activeKey' = <<>>
    /\ nextTick' = RestartInterval
    /\ triggeredReminders' = triggeredReminders \ Range(activeKey)
    /\ UNCHANGED <<now, tasks, turnVars, fired>>

Snooze ==
    /\ notificationTask # NoNotification
    /\ LET id == notificationTask[1].id
       IN /\ snoozedTasks' = snoozedTasks \cup {id}
          /\ snoozeTimers' = snoozeTimers \cup {[id |-> id, at |-> SnoozeDeadline]}
          /\ snoozedAt' = [k \in DOMAIN snoozedAt \cup {id} |->
                              IF k = id THEN now ELSE snoozedAt[k]]
    /\ notificationTask' = NoNotification
    /\ activeKey' = <<>>
    /\ nextTick' = RestartInterval
    /\ UNCHANGED <<now, tasks, triggeredReminders, turnVars, fired>>

\* the setTimeout callback of lines 1008-1014
SnoozeExpire(t) ==
    /\ t \in snoozeTimers
    /\ t.at = now
    /\ snoozedTasks' = snoozedTasks \ {t.id}
    /\ snoozeTimers' = snoozeTimers \ {t}
    /\ snoozedAt' = [k \in DOMAIN snoozedAt \ {t.id} |-> snoozedAt[k]]
    /\ nextTick' = RestartInterval
    /\ UNCHANGED <<now, tasks, notificationTask, triggeredReminders, turnVars,
                   fired, activeKey>>

\* a close that would also re-arm the reminder it closes
CloseNotification_Rearm ==
    /\ notificationTask' = NoNotification
    /\ activeKey' = <<>>
    /\ nextTick' = RestartInterval
    /\ triggeredReminders' = triggeredReminders \ Range(activeKey)
    /\ UNCHANGED <<now, tasks, snoozedTasks, snoozeTimers, turnVars, fired, snoozedAt>>

\* the toast's onClose, line 1147: setNotificationTask(null)
CloseNotification ==
    /\ notificationTask' = NoNotification
    /\ activeKey' = <<>>
    /\ nextTick' = RestartInterval
    /\ UNCHANGED <<now, tasks, snoozedTasks, triggeredReminders, snoozeTimers, turnVars,
                   fired, snoozedAt>>

\* the user presses the close button of the toast
Dismiss ==
    /\ notificationTask # NoNotification
    /\ CloseNotification

\* an automatic close that would also re-arm the reminder it closes
ToastAutoClose_Rearm ==
    /\ notificationTask # NoNotification
    /\ notificationTask[1].dueDate # NoTime
    /\ notificationTask[1].dueDate - now <= 0
    /\ CloseNotification_Rearm

\* NotificationToast.calculateTimeRemaining: onClose() when the task is overdue
ToastAutoClose ==
    /\ notificationTask # NoNotification
    /\ notificationTask[1].dueDate # NoTime
    /\ notificationTask[1].dueDate - now <= 0
    /\ CloseNotification

\* time passes; a timer fires when it is due, never later
Deadlines == {nextTick} \cup {t.at : t \in snoozeTimers}

Advance(limit) ==
    /\ \A d \in Deadlines : d > now
    /\ now < limit
    /\ now' = CHOOSE t \in Deadlines \cup {now + TimeStep} :
                  \A d \in Deadlines \cup {now + TimeStep} : t <= d
    /\ UNCHANGED <<tasks, schedVars, turnVars, histVars>>

AdvanceTime == Advance(MaxTime)

AdvanceChatTime == Advance(ChatSteps * TimeStep)

\* ------------------------------------------------------------- messages
\* A string built by the program is modelled as a sequence of sentences, the empty
\* string as <<>>; a sentence keeps the template it was built from and the values
\* interpolated into it.
Sentence(kind, texts, n) == [kind |-> kind, texts |-> texts, n |-> n, items |-> <<>>]

Empty == <<>>

\* JavaScript truthiness of a task text
Truthy(s) == s # NoText

Message(role, body) == [role |-> role, body |-> body]

\* The errors that a collaborator or the database may raise, by name; the text of
\* an error is a sequence of words, the quota signals being words of their own.
ErrorNames == {"quota", "exhausted", "other", "long"}

\* e instanceof Error ? e.message : String(e)
RawErrorMessage(e) ==
    CASE e = "quota" -> <<"got", "status", "429">>
      [] e = "exhausted" -> <<"RESOURCE_EXHAUSTED", "quota">>
      [] e = "long" -> [k \in 1..(MessageLimit + 1) |-> "x"]
      [] OTHER -> <<"request", "failed">>

\* String.prototype.includes
Includes(text, word) == \E k \in DOMAIN text : text[k] = word

\* String.prototype.substring(0, n)
Substring(text, n) == SubSeq(text, 1, IF Len(text) < n THEN Len(text) ELSE n)

\* lines 965 and 744: the test for a quota error
IsQuotaError(e) ==
    Includes(RawErrorMessage(e), "429") \/ Includes(RawErrorMessage(e), "RESOURCE_EXHAUSTED")

\* String.prototype.trim on a sequence of characters, " " being white space
RECURSIVE TrimStart(_)
TrimStart(s) == IF s # <<>> /\ Head(s) = " " THEN TrimStart(Tail(s)) ELSE s

RECURSIVE TrimEnd(_)
TrimEnd(s) ==
    IF s # <<>> /\ s[Len(s)] = " " THEN TrimEnd(SubSeq(s, 1, Len(s) - 1)) ELSE s

Trim(s) == TrimEnd(TrimStart(s))

\* ----------------------------------------------- NotificationTimeComputer
HOUR_MS == 60 * 60 * 1000
MINUTE_MS == 60 * 1000
REDUNDANT_MS == 60000

\* subtractTime, lines 758-763 (local-time arithmetic, no DST change in range)
SubtractTime(date, hours, minutes) == date - hours * HOUR_MS - minutes * MINUTE_MS

\* a default that is a quarter of an hour before the due date for every type
DefaultTime_Quarter(task) == SubtractTime(task.dueDate, 0, 15)

\* lines 787-800
DefaultTime(task) ==
    CASE task.type = "Appointment" -> SubtractTime(task.dueDate, 1, 0)
      [] task.type = "Meeting" -> SubtractTime(task.dueDate, 1, 30)
      [] task.type = "Assignment" -> SubtractTime(task.dueDate, 0, 30)
      [] OTHER -> SubtractTime(task.dueDate, 0, 15)

Abs(x) == IF x < 0 THEN 0 - x ELSE x

\* candidates in which a custom notification time stands alone
NotificationTimes_CustomAlone(task, t) ==
    LET oneDayBefore == SubtractTime(task.dueDate, 24, 0)
    IN IF task.customNotificationTime # NoTime
       THEN <<task.customNotificationTime>>
       ELSE IF /\ task.priority = "high"
               /\ oneDayBefore > t
               /\ ~(Abs(DefaultTime(task) - oneDayBefore) < REDUNDANT_MS)
            THEN <<DefaultTime(task), oneDayBefore>>
            ELSE <<DefaultTime(task)>>

\* candidates in which only an equal instant would suppress the day before
NotificationTimes_ExactDedup(task, t) ==
    LET first == IF task.customNotificationTime # NoTime
                 THEN task.customNotificationTime
                 ELSE DefaultTime(task)
        oneDayBefore == SubtractTime(task.dueDate, 24, 0)
    IN IF task.priority = "high" /\ oneDayBefore > t /\ first # oneDayBefore
       THEN <<first, oneDayBefore>>
       ELSE <<first>>

\* lines 781-810: the candidates of one task, in the order they are pushed
NotificationTimes(task, t) ==
    LET first == IF task.customNotificationTime # NoTime
                 THEN <<task.customNotificationTime>>
                 ELSE <<DefaultTime(task)>>
        oneDayBefore == SubtractTime(task.dueDate, 24, 0)
    IN IF /\ task.priority = "high"
          /\ oneDayBefore > t
          /\ \A i \in DOMAIN first : ~(Abs(first[i] - oneDayBefore) < REDUNDANT_MS)
       THEN first \o <<oneDayBefore>>
       ELSE first

\* lines 812-820: only the candidates later than now are scheduled
RECURSIVE Future(_, _, _)
Future(task, times, t) ==
    IF times = <<>> THEN <<>>
    ELSE (IF Head(times) > t
          THEN <<[task |-> task.text, notify_at |-> Head(times), due |-> task.dueDate,
                  priority |-> task.priority]>>
          ELSE <<>>) \o Future(task, Tail(times), t)

\* handleGenerateNotificationSchedule, lines 753-824
RECURSIVE Schedule(_, _)
Schedule(list, t) ==
    IF list = <<>> THEN <<>>
    ELSE (IF ~Head(list).isCompleted /\ Head(list).dueDate # NoTime
          THEN Future(Head(list), NotificationTimes(Head(list), t), t)
          ELSE <<>>) \o Schedule(Tail(list), t)

\* ---------------------------------------------------- ToolCallDispatcher
NoSuchId == MaxTime + 1

NewTurn(snapshot) ==
    [pc |-> "accepted", tasks |-> snapshot, aiResponseText |-> <<>>, chunks |-> 0,
     hasCalls |-> FALSE, functionCalls |-> 0, error |-> "",
     createdTasks |-> <<>>, scheduledReminders |-> <<>>,
     taskDeletedMessage |-> Empty, analysisMessage |-> Empty,
     updateMessage |-> Empty, scheduleMessage |-> Empty]

Remove(s, i) == SubSeq(s, 1, i - 1) \o SubSeq(s, i + 1, Len(s))

\* handleSubmit, lines 848-857: the turn is accepted and the user message added
Submit ==
    /\ ~isLoading
    /\ turnCount < MaxTurns
    /\ turns' = Append(turns, NewTurn(tasks))
    /\ turnCount' = turnCount + 1
    /\ messages' = Append(messages, Message("user", <<Sentence("input", <<>>, 0)>>))
    /\ UNCHANGED <<now, tasks, schedVars, isLoading, histVars>>

\* lines 859-871: after the user message is saved, the loading flag is set and
\* the message is sent to the conversational service
BeginTurn(i) ==
    /\ turns[i].pc = "accepted"
    /\ isLoading' = TRUE
    /\ turns' = [turns EXCEPT ![i].pc = "streaming"]
    /\ UNCHANGED <<now, tasks, schedVars, messages, turnCount, histVars>>

ChunkTexts == {<<>>, <<" ">>, <<"x">>}

\* lines 876-881: the body of the loop for one chunk of the response stream;
\* functionCalls is assigned, not appended to
Chunk(i, text, has, n) ==
    /\ turns[i].pc = "streaming"
    /\ turns' = [turns EXCEPT ![i].aiResponseText = @ \o text,
                              ![i].chunks = @ + 1,
                              ![i].hasCalls = IF has THEN TRUE ELSE @,
                              ![i].functionCalls = IF has THEN n ELSE @]
    /\ UNCHANGED <<now, tasks, schedVars, isLoading, messages, turnCount, histVars>>

\* a chunk of a stream of at most MaxChunks chunks
StreamChunk(i, text, has, n) ==
    /\ turns[i].chunks < MaxChunks
    /\ Chunk(i, text, has, n)

\* the stream ends: the loop of lines 876-881 is left
StreamEnd(i) ==
    /\ turns[i].pc = "streaming"
    /\ turns' = [turns EXCEPT ![i].pc = "dispatch"]
    /\ UNCHANGED <<now, tasks, schedVars, isLoading, messages, turnCount, histVars>>

\* sendMessageStream or the stream iteration throws
StreamError(i, e) ==
    /\ turns[i].pc = "streaming"
    /\ turns' = [turns EXCEPT ![i].pc = "failed", ![i].error = e]
    /\ UNCHANGED <<now, tasks, schedVars, isLoading, messages, turnCount, histVars>>

\* a tool invocation of the batch is next (lines 890-891)
CanDispatch(i) ==
    /\ i \in DOMAIN turns
    /\ turns[i].pc = "dispatch"
    /\ turns[i].hasCalls
    /\ turns[i].functionCalls > 0

\* the turn after one invocation: an await that rejects leaves the loop for the
\* catch block of line 960
After(turn, ok) ==
    IF ok THEN [turn EXCEPT !.functionCalls = @ - 1]
    ELSE [turn EXCEPT !.pc = "failed", !.error = "other"]

CreateArgsSet ==
    {[text |-> "b", dueDate |-> NoTime, priority |-> NoText, category |-> NoText,
      type |-> NoText, customNotificationTime |-> NoTime],
     [text |-> "c", dueDate |-> 4 * TimeStep, priority |-> "high", category |-> "Work",
      type |-> "Meeting", customNotificationTime |-> NoTime]}

\* a creation that would store the arguments as given, without defaults
CreatedTask_AsGiven(args) ==
    NewTask(now, args.text, args.dueDate, args.priority, args.category, args.type,
            args.customNotificationTime, now)

\* handleCreateTask, lines 530-549, and lines 892-895
CreatedTask(args) ==
    NewTask(now, args.text, args.dueDate,
            IF args.priority # NoText THEN args.priority ELSE "medium",
            args.category,
            IF args.type # NoText THEN args.type ELSE "Other",
            args.customNotificationTime, now)

\* a creation that would take the task out of the list again when its write fails
DoCreateTask_RollBack(i, args, ok) ==
    /\ CanDispatch(i)
    /\ Len(tasks) < MaxTasks
    /\ tasks' = IF ok THEN Append(tasks, CreatedTask(args)) ELSE tasks
    /\ nextTick' = RestartInterval
    /\ turns' = [turns EXCEPT ![i] =
                    IF ok THEN [After(@, ok) EXCEPT !.createdTasks = Append(@, args.text)]
                    ELSE After(@, ok)]
    /\ UNCHANGED <<now, notificationTask, snoozedTasks, triggeredReminders, snoozeTimers,
                   isLoading, messages, turnCount, histVars>>

DoCreateTask(i, args, ok) ==
    /\ CanDispatch(i)
    /\ Len(tasks) < MaxTasks
    /\ tasks' = Append(tasks, CreatedTask(args))
    /\ nextTick' = RestartInterval
    /\ turns' = [turns EXCEPT ![i] =
                    IF ok THEN [After(@, ok) EXCEPT !.createdTasks = Append(@, args.text)]
                    ELSE After(@, ok)]
    /\ UNCHANGED <<now, notificationTask, snoozedTasks, triggeredReminders, snoozeTimers,
                   isLoading, messages, turnCount, histVars>>

\* setTasks(prevTasks => prevTasks.map(t => t.id === taskId ? updatedTask : t))
Replaced(list, id, updatedTask) ==
    [k \in DOMAIN list |-> IF list[k].id = id THEN updatedTask ELSE list[k]]

\* a lookup that would read the store as the earlier invocations left it
ReminderTarget_FromStore(turn, id) == Find(tasks, id)

\* handleScheduleReminder, lines 629-642, and lines 899-902
\* the task that is given the reminder: tasks.find of line 631
ReminderTarget(turn, id) == Find(turn.tasks, id)

DoScheduleReminder(i, id, reminderTime, ok) ==
    /\ CanDispatch(i)
    /\ LET taskToUpdate == ReminderTarget(turns[i], id)
       IN IF taskToUpdate # <<>>
          THEN /\ tasks' = Replaced(tasks, id,
                               [taskToUpdate[1] EXCEPT !.reminders = Append(@, reminderTime)])
               /\ nextTick' = RestartInterval
               /\ turns' = [turns EXCEPT ![i] =
                    IF ok /\ Truthy(taskToUpdate[1].text)
                    THEN [After(@, ok) EXCEPT
                             !.scheduledReminders = Append(@, taskToUpdate[1].text)]
                    ELSE After(@, ok)]
          ELSE /\ ok
               /\ turns' = [turns EXCEPT ![i] = After(@, TRUE)]
               /\ UNCHANGED <<tasks, nextTick>>
    /\ UNCHANGED <<now, notificationTask, snoozedTasks, triggeredReminders, snoozeTimers,
                   isLoading, messages, turnCount, histVars>>

\* handleDeleteTask, lines 644-657, and lines 903-910
\* the task to delete: tasks.find of line 647
DeleteTarget(turn, id) == Find(turn.tasks, id)

DeletedMessage(text) ==
    IF Truthy(text) THEN <<Sentence("removed", <<text>>, 0)>>
    ELSE <<Sentence("notFound", <<>>, 0)>>

\* a deletion that would also take the task out of the snoozed set
DoDeleteTask_Forgetting(i, id, ok) ==
    /\ CanDispatch(i)
    /\ LET taskToDelete == DeleteTarget(turns[i], id)
       IN IF taskToDelete # <<>>
          THEN /\ tasks' = Filter(tasks, id)
               /\ snoozedTasks' = snoozedTasks \ {id}
               /\ nextTick' = RestartInterval
               /\ turns' = [turns EXCEPT ![i] =
                    IF ok
                    THEN [After(@, ok) EXCEPT
                             !.taskDeletedMessage = DeletedMessage(taskToDelete[1].text)]
                    ELSE After(@, ok)]
          ELSE /\ ok
               /\ turns' = [turns EXCEPT ![i] =
                    [After(@, TRUE) EXCEPT !.taskDeletedMessage = DeletedMessage(NoText)]]
               /\ UNCHANGED <<tasks, nextTick, snoozedTasks>>
    /\ UNCHANGED <<now, notificationTask, triggeredReminders, snoozeTimers,
                   isLoading, messages, turnCount, histVars>>

DoDeleteTask(i, id, ok) ==
    /\ CanDispatch(i)
    /\ LET taskToDelete == DeleteTarget(turns[i], id)
       IN IF taskToDelete # <<>>
          THEN /\ tasks' = Filter(tasks, id)
               /\ nextTick' = RestartInterval
               /\ turns' = [turns EXCEPT ![i] =
                    IF ok
                    THEN [After(@, ok) EXCEPT
                             !.taskDeletedMessage = DeletedMessage(taskToDelete[1].text)]
                    ELSE After(@, ok)]
          ELSE /\ ok
               /\ turns' = [turns EXCEPT ![i] =
                    [After(@, TRUE) EXCEPT !.taskDeletedMessage = DeletedMessage(NoText)]]
               /\ UNCHANGED <<tasks, nextTick>>
    /\ UNCHANGED <<now, notificationTask, snoozedTasks, triggeredReminders, snoozeTimers,
                   isLoading, messages, turnCount, histVars>>

\* handleUpdateTask, lines 551-627, and lines 896-898
NoUpdates ==
    [newName |-> NoText, newDueDate |-> NoTime, newPriority |-> NoText,
     newStatus |-> NoText, newCategory |-> NoText, newType |-> NoText,
     hasCustom |-> FALSE, newCustomNotificationTime |-> NoTime]

UpdateArgsSet ==
    {[NoUpdates EXCEPT !.newStatus = "completed"],
     [NoUpdates EXCEPT !.newStatus = "pending"],
     [NoUpdates EXCEPT !.newDueDate = 6 * TimeStep],
     [NoUpdates EXCEPT !.newPriority = "high"]}

\* the task to update: tasks.find of line 562
UpdateTarget(turn, id) == Find(turn.tasks, id)

StatusChanges(task, u) ==
    u.newStatus # NoText /\ (u.newStatus = "completed") # task.isCompleted

\* lines 568-609: the updated copy of the task
UpdatedTask(task, u) ==
    [task EXCEPT
        !.text = IF u.newName # NoText /\ u.newName # task.text THEN u.newName ELSE @,
        !.dueDate = IF u.newDueDate # NoTime /\ u.newDueDate # task.dueDate
                    THEN u.newDueDate ELSE @,
        !.priority = IF u.newPriority # NoText /\ u.newPriority # task.priority
                     THEN u.newPriority ELSE @,
        !.category = IF u.newCategory # NoText /\ u.newCategory # task.category
                     THEN u.newCategory ELSE @,
        !.type = IF u.newType # NoText /\ u.newType # task.type THEN u.newType ELSE @,
        !.customNotificationTime = IF u.hasCustom THEN u.newCustomNotificationTime ELSE @,
        !.isCompleted = IF StatusChanges(task, u) THEN u.newStatus = "completed" ELSE @,
        !.completedAt = IF StatusChanges(task, u)
                        THEN (IF u.newStatus = "completed" THEN now ELSE NoTime)
                        ELSE @]

\* lines 570-609: changeDescriptions, in the order they are pushed
ChangeDescriptions(task, u) ==
    LET name == UpdatedTask(task, u).text
    IN (IF u.newName # NoText /\ u.newName # task.text
        THEN <<Sentence("renamed", <<task.text, u.newName>>, 0)>> ELSE <<>>)
       \o (IF u.newDueDate # NoTime /\ u.newDueDate # task.dueDate
           THEN <<Sentence("deadline", <<name>>, u.newDueDate)>> ELSE <<>>)
       \o (IF u.newPriority # NoText /\ u.newPriority # task.priority
           THEN <<Sentence("priority", <<name, u.newPriority>>, 0)>> ELSE <<>>)
       \o (IF u.newCategory # NoText /\ u.newCategory # task.category
           THEN <<Sentence("category", <<name, u.newCategory>>, 0)>> ELSE <<>>)
       \o (IF u.newType # NoText /\ u.newType # task.type
           THEN <<Sentence("type", <<name, u.newType>>, 0)>> ELSE <<>>)
       \o (IF u.hasCustom
           THEN (IF u.newCustomNotificationTime # NoTime
                 THEN <<Sentence("customSet", <<name>>, u.newCustomNotificationTime)>>
                 ELSE <<Sentence("customRemoved", <<name>>, 0)>>)
           ELSE <<>>)
       \o (IF StatusChanges(task, u)
           THEN <<Sentence("status", <<name, u.newStatus>>, 0)>> ELSE <<>>)

\* line 624: the task-details block
TaskDetails(task) ==
    Sentence("details",
             <<task.text, IF task.isCompleted THEN "Completed" ELSE "Pending", task.priority>>,
             task.dueDate)

\* a response that would leave the details out only when the due date alone changed
UpdateResponse_ByChange(task, u) ==
    IF \A k \in DOMAIN ChangeDescriptions(task, u) :
           ChangeDescriptions(task, u)[k].kind = "deadline"
    THEN ChangeDescriptions(task, u)
    ELSE ChangeDescriptions(task, u) \o <<TaskDetails(UpdatedTask(task, u))>>

\* lines 618-626: the response of an update that changed something
UpdateResponse(task, u) ==
    IF u.newDueDate # NoTime
    THEN ChangeDescriptions(task, u)
    ELSE ChangeDescriptions(task, u) \o <<TaskDetails(UpdatedTask(task, u))>>

DoUpdateTask(i, id, u, ok) ==
    /\ CanDispatch(i)
    /\ LET taskToUpdate == UpdateTarget(turns[i], id)
       IN IF taskToUpdate = <<>>
          THEN /\ ok
               /\ turns' = [turns EXCEPT ![i] =
                    [After(@, TRUE) EXCEPT
                        !.updateMessage = <<Sentence("updateNotFound", <<>>, 0)>>]]
               /\ UNCHANGED <<tasks, nextTick>>
          ELSE IF ChangeDescriptions(taskToUpdate[1], u) = <<>>
          THEN /\ ok
               /\ turns' = [turns EXCEPT ![i] =
                    [After(@, TRUE) EXCEPT
                        !.updateMessage =
                            <<Sentence("noChanges", <<taskToUpdate[1].text>>, 0)>>]]
               /\ UNCHANGED <<tasks, nextTick>>
          ELSE /\ tasks' = Replaced(tasks, id, UpdatedTask(taskToUpdate[1], u))
               /\ nextTick' = RestartInterval
               /\ turns' = [turns EXCEPT ![i] =
                    IF ok
                    THEN [After(@, ok) EXCEPT
                             !.updateMessage = UpdateResponse(taskToUpdate[1], u)]
                    ELSE After(@, ok)]
    /\ UNCHANGED <<now, notificationTask, snoozedTasks, triggeredReminders, snoozeTimers,
                   isLoading, messages, turnCount, histVars>>

\* handleAnalyzeProductivityPatterns, lines 659-751, and lines 911-913; the
\* collaborator answers with a report, with a quota error or with another error
AnalysisOutcomes == {"analysis"} \cup ErrorNames

\* lines 718-746: the report, or the message of the catch block of the handler
AnalysisMessage(outcome) ==
    IF outcome = "analysis" THEN <<Sentence("analysis", <<>>, 0)>>
    ELSE IF IsQuotaError(outcome) THEN <<Sentence("analysisQuota", <<>>, 0)>>
    ELSE <<Sentence("analysisFailed", <<>>, 0)>>

DoAnalyze(i, outcome) ==
    /\ CanDispatch(i)
    /\ IF Len(turns[i].tasks) < AnalysisMinTasks
       THEN /\ outcome = "analysis"
            /\ turns' = [turns EXCEPT ![i] =
                 [After(@, TRUE) EXCEPT
                     !.analysisMessage = <<Sentence("needHistory", <<>>, 0)>>]]
            /\ UNCHANGED isLoading
       ELSE /\ turns' = [turns EXCEPT ![i] =
                 [After(@, TRUE) EXCEPT !.analysisMessage = AnalysisMessage(outcome)]]
            /\ isLoading' = FALSE
    /\ UNCHANGED <<now, tasks, schedVars, messages, turnCount, histVars>>

\* lines 914-921
ScheduleMessage(items) ==
    IF Len(items) > 0
    THEN <<[Sentence("schedule", <<>>, Len(items)) EXCEPT !.items = items]>>
    ELSE <<Sentence("noSchedule", <<>>, 0)>>

DoGenerateSchedule(i) ==
    /\ CanDispatch(i)
    /\ turns' = [turns EXCEPT ![i] =
         [After(@, TRUE) EXCEPT
             !.scheduleMessage = ScheduleMessage(Schedule(turns[i].tasks, now))]]
    /\ UNCHANGED <<now, tasks, schedVars, isLoading, messages, turnCount, histVars>>

\* lines 925-935: the creation and reminder confirmation
CreationConfirmation(turn) ==
    LET created ==
            IF Len(turn.createdTasks) > 1
            THEN <<Sentence("addedAll", <<>>, Len(turn.createdTasks))>>
            ELSE IF Len(turn.createdTasks) = 1
            THEN <<Sentence("addedOne", <<turn.createdTasks[1]>>, 1)>>
            ELSE Empty
        reminderConf == Sentence("remind", turn.scheduledReminders, 0)
    IN IF Len(turn.scheduledReminders) > 0
       THEN (IF created # Empty THEN created \o <<reminderConf>>
             ELSE <<Sentence("ok", <<>>, 0), reminderConf>>)
       ELSE created

\* a choice in which the deletion confirmation would win
FinalConfirmation_DeletionFirst(turn) ==
    IF turn.taskDeletedMessage # Empty THEN turn.taskDeletedMessage
    ELSE IF turn.updateMessage # Empty THEN turn.updateMessage
    ELSE IF turn.analysisMessage # Empty THEN turn.analysisMessage
    ELSE IF turn.scheduleMessage # Empty THEN turn.scheduleMessage
    ELSE CreationConfirmation(turn)

\* lines 925-951: finalConfirmationMessage; each later assignment overwrites
FinalConfirmation(turn) ==
    LET m1 == CreationConfirmation(turn)
        m2 == IF turn.taskDeletedMessage # Empty THEN turn.taskDeletedMessage ELSE m1
        m3 == IF turn.updateMessage # Empty THEN turn.updateMessage ELSE m2
        m4 == IF turn.analysisMessage # Empty THEN turn.analysisMessage ELSE m3
    IN IF turn.scheduleMessage # Empty THEN turn.scheduleMessage ELSE m4

TextMessage(responseText) == <<[Sentence("text", <<>>, 0) EXCEPT !.texts = responseText]>>

\* a reply in which the confirmation would win over the text
Reply_ConfirmationFirst(responseText, confirmation) ==
    IF confirmation # Empty THEN <<Message("model", confirmation)>>
    ELSE IF responseText # <<>> THEN <<Message("model", TextMessage(responseText))>>
    ELSE <<>>

\* lines 953-958: what the turn adds to the conversation, <<>> when nothing
Reply(responseText, confirmation) ==
    IF responseText # <<>> THEN <<Message("model", TextMessage(responseText))>>
    ELSE IF confirmation # Empty THEN <<Message("model", confirmation)>>
    ELSE <<>>

\* lines 925-958 and 973-975: the batch is done, the turn replies and ends
Finalize(i) ==
    /\ i \in DOMAIN turns
    /\ turns[i].pc = "dispatch"
    /\ ~CanDispatch(i)
    /\ messages' = messages \o Reply(Trim(turns[i].aiResponseText),
                                     FinalConfirmation(turns[i]))
    /\ isLoading' = FALSE
    /\ turns' = Remove(turns, i)
    /\ UNCHANGED <<now, tasks, schedVars, turnCount, histVars>>

\* lines 960-975: the catch block
\* an error message that would embed the whole text of the error
FriendlyError_WholeText(e) ==
    IF IsQuotaError(e) THEN <<Sentence("quota", <<>>, 0)>>
    ELSE <<Sentence("error", RawErrorMessage(e), 0)>>

FriendlyError(e) ==
    IF IsQuotaError(e) THEN <<Sentence("quota", <<>>, 0)>>
    ELSE <<Sentence("error", Substring(RawErrorMessage(e), MessageLimit), 0)>>

TurnCatch(i) ==
    /\ i \in DOMAIN turns
    /\ turns[i].pc = "failed"
    /\ messages' = Append(messages, Message("model", FriendlyError(turns[i].error)))
    /\ isLoading' = FALSE
    /\ turns' = Remove(turns, i)
    /\ UNCHANGED <<now, tasks, schedVars, turnCount, histVars>>

\* the ids and times the conversational service may put into an invocation
CallIds(i) == Ids(turns[i].tasks) \cup Ids(tasks) \cup {NoSuchId}

ReminderTimes == {2 * TimeStep, 3 * TimeStep}

Dispatch(i) ==
    \/ \E args \in CreateArgsSet, ok \in BOOLEAN : DoCreateTask(i, args, ok)
    \/ \E id \in CallIds(i), u \in UpdateArgsSet, ok \in BOOLEAN : DoUpdateTask(i, id, u, ok)
    \/ \E id \in CallIds(i), r \in ReminderTimes, ok \in BOOLEAN :
           DoScheduleReminder(i, id, r, ok)
    \/ \E id \in CallIds(i), ok \in BOOLEAN : DoDeleteTask(i, id, ok)
    \/ \E outcome \in AnalysisOutcomes : DoAnalyze(i, outcome)
    \/ DoGenerateSchedule(i)

Turn(i) ==
    \/ BeginTurn(i)
    \/ \E text \in ChunkTexts, has \in BOOLEAN, n \in 0..MaxCalls :
           (has \/ n = 0) /\ StreamChunk(i, text, has, n)
    \/ StreamEnd(i)
    \/ \E e \in ErrorNames : StreamError(i, e)
    \/ Dispatch(i)
    \/ Finalize(i)
    \/ TurnCatch(i)

\* ------------------------------------------------------------------ Init
\* the task list is loaded from IndexedDB when the component mounts (lines 383-402)
StoredTask ==
    [NewTask(0 - TimeStep, "a", 3 * TimeStep, "medium", NoText, "Other", NoTime, 0 - TimeStep)
        EXCEPT !.reminders = <<TimeStep>>]

LongTask == [StoredTask EXCEPT !.reminders = <<TimeStep, 4 * TimeStep, 23 * TimeStep>>]

OtherStoredTask ==
    [NewTask(0 - 2 * TimeStep, "b", NoTime, "high", NoText, "Other", NoTime, 0 - 2 * TimeStep)
        EXCEPT !.reminders = <<2 * TimeStep>>]

InitialStores == {<<StoredTask>>, <<LongTask, OtherStoredTask>>}

Init ==
    /\ now = 0
    /\ tasks \in InitialStores
    /\ notificationTask = NoNotification
    /\ snoozedTasks = {}
    /\ triggeredReminders = {}
    /\ nextTick = POLL_INTERVAL_MS
    /\ snoozeTimers = {}
    /\ isLoading = FALSE
    /\ messages = <<>>
    /\ turns = <<>>
    /\ turnCount = 0
    /\ fired = <<>>
    /\ activeKey = <<>>
    /\ snoozedAt = <<>>

\* the scheduler and the operations of the goals view and of the toast
Scheduler ==
    \/ PollTick
    \/ \E id \in Ids(tasks) : ToggleTask(id)
    \/ MarkAsDone
    \/ Snooze
    \/ Dismiss
    \/ ToastAutoClose

\* Spec: the scheduler over a horizon in which a snooze expires; the task list is
\* the stored one and changes by completion only
Next ==
    \/ Scheduler
    \/ \E t \in snoozeTimers : SnoozeExpire(t)
    \/ AdvanceTime

Spec == Init /\ [][Next]_vars

\* SpecChat: the scheduler together with the chat turns, over the first ChatSteps
\* grid steps; no snooze timer is due that early (ChatSteps * TimeStep is less
\* than SNOOZE_DURATION_MS)
ChatInit ==
    /\ Init
    /\ tasks = <<StoredTask>>

ChatNext ==
    \/ Scheduler
    \/ AdvanceChatTime
    \/ Submit
    \/ \E i \in DOMAIN turns : Turn(i)

SpecChat == ChatInit /\ [][ChatNext]_vars

\* SpecTools: one chat turn over a store drawn from a set of stores loaded from
\* the database, at the instant the component is mounted; the tool calls take
\* their arguments from the sets of Dispatch and, for an updateTask that is the
\* only call of its batch, from ProbeUpdates
ProbeId == 0 - TimeStep

ProbeTypes == {"Appointment", "Meeting", "Assignment", "Other"}

ProbeTasks ==
    {NewTask(ProbeId, "a", dueDate, priority, NoText, type, custom, ProbeId) :
        dueDate \in {2 * HOUR_MS, 25 * HOUR_MS},
        priority \in {"high", "medium"},
        type \in ProbeTypes,
        custom \in {NoTime, 0 - HOUR_MS, 0, HOUR_MS, 2 * HOUR_MS}}

\* tasks at the edges of the schedule rules: a custom time 30 s and 60 s after
\* the day before the due date, no due date, no type, an assignment due in an hour,
\* a low priority
EdgeTasks ==
    {NewTask(ProbeId, "a", 25 * HOUR_MS, "high", NoText, "Other", custom, ProbeId) :
        custom \in {HOUR_MS + 2 * TimeStep, HOUR_MS + 4 * TimeStep}}
    \cup {NewTask(ProbeId, "a", NoTime, "high", NoText, "Other", custom, ProbeId) :
              custom \in {NoTime, HOUR_MS}}
    \cup {NewTask(ProbeId, "a", dueDate, priority, NoText, NoText, NoTime, ProbeId) :
              dueDate \in {2 * HOUR_MS, 25 * HOUR_MS}, priority \in {"high", "medium"}}
    \cup {NewTask(ProbeId, "a", HOUR_MS, "medium", NoText, "Assignment", NoTime, ProbeId)}
    \cup {NewTask(ProbeId, "a", 25 * HOUR_MS, "low", NoText, "Other", NoTime, ProbeId)}

ProbeStores == {<<>>} \cup {<<task>> : task \in ProbeTasks \cup EdgeTasks}

\* updateTask arguments that supply one field, equal to the stored value or not
ProbeFields ==
    {[NoUpdates EXCEPT !.newName = "a"], [NoUpdates EXCEPT !.newName = "z"],
     [NoUpdates EXCEPT !.newPriority = "high"], [NoUpdates EXCEPT !.newPriority = "medium"],
     [NoUpdates EXCEPT !.newStatus = "completed"], [NoUpdates EXCEPT !.newStatus = "pending"],
     [NoUpdates EXCEPT !.newCategory = "Work"], [NoUpdates EXCEPT !.newType = "Meeting"]}

ProbeDueDates ==
    {[NoUpdates EXCEPT !.newDueDate = 2 * HOUR_MS],
     [NoUpdates EXCEPT !.newDueDate = 3 * HOUR_MS]}

ProbeCustoms ==
    {[NoUpdates EXCEPT !.hasCustom = TRUE, !.newCustomNotificationTime = HOUR_MS],
     [NoUpdates EXCEPT !.hasCustom = TRUE]}

\* the arguments that supply the fields of both
Merge(u, v) == [f \in DOMAIN u |-> IF u[f] # NoUpdates[f] THEN u[f] ELSE v[f]]

\* updateTask arguments with one or two fields supplied
ProbeUpdates ==
    ProbeFields \cup ProbeDueDates \cup ProbeCustoms
    \cup {Merge(u, v) : u \in ProbeDueDates, v \in ProbeFields \cup ProbeCustoms}
    \cup {Merge(u, v) : u \in ProbeCustoms, v \in ProbeFields}

ToolInit ==
    /\ now = 0
    /\ tasks \in ProbeStores
    /\ notificationTask = NoNotification
    /\ snoozedTasks = {}
    /\ triggeredReminders = {}
    /\ nextTick = POLL_INTERVAL_MS
    /\ snoozeTimers = {}
    /\ isLoading = FALSE
    /\ messages = <<>>
    /\ turns = <<>>
    /\ turnCount = 0
    /\ fired = <<>>
    /\ activeKey = <<>>
    /\ snoozedAt = <<>>

\* the batch of the turn is one invocation and nothing has been dispatched yet
SingleCall(i) ==
    /\ CanDispatch(i)
    /\ turns[i].functionCalls = 1
    /\ turns[i].tasks = tasks
    /\ turns[i].createdTasks = <<>>
    /\ turns[i].scheduledReminders = <<>>
    /\ turns[i].taskDeletedMessage = Empty
    /\ turns[i].analysisMessage = Empty
    /\ turns[i].updateMessage = Empty
    /\ turns[i].scheduleMessage = Empty

ToolNext ==
    \/ Submit
    \/ \E i \in DOMAIN turns : Turn(i)
    \/ \E i \in DOMAIN turns, u \in ProbeUpdates :
           SingleCall(i) /\ DoUpdateTask(i, ProbeId, u, TRUE)

SpecTools == ToolInit /\ [][ToolNext]_vars

\* SpecTurn: one chat turn at the instant the component is mounted, over the
\* stored task or over a history of AnalysisMinTasks tasks, with a response
\* stream of one chunk more than MaxChunks
HistoryTexts == <<"a", "b", "c", "d", "e">>

HistoryStore ==
    [k \in 1..AnalysisMinTasks |->
        NewTask(0 - k * TimeStep, HistoryTexts[k], NoTime, "medium", NoText, "Other",
                NoTime, 0 - k * TimeStep)]

TurnInit ==
    /\ now = 0
    /\ tasks \in {<<StoredTask>>, HistoryStore}
    /\ notificationTask = NoNotification
    /\ snoozedTasks = {}
    /\ triggeredReminders = {}
    /\ nextTick = POLL_INTERVAL_MS
    /\ snoozeTimers = {}
    /\ isLoading = FALSE
    /\ messages = <<>>
    /\ turns = <<>>
    /\ turnCount = 0
    /\ fired = <<>>
    /\ activeKey = <<>>
    /\ snoozedAt = <<>>

\* the chunk that follows MaxChunks chunks
LaterChunk(i, text, has, n) ==
    /\ turns[i].chunks = MaxChunks
    /\ Chunk(i, text, has, n)

TurnNext ==
    \/ Submit
    \/ \E i \in DOMAIN turns : Turn(i)
    \/ \E i \in DOMAIN turns, text \in ChunkTexts, has \in BOOLEAN, n \in 0..MaxCalls :
           (has \/ n = 0) /\ LaterChunk(i, text, has, n)

SpecTurn == TurnInit /\ [][TurnNext]_vars

\* SpecScan: the scheduler over stores in which several reminders are due in one
\* tick: a task whose list holds an instant twice (scheduled in two turns), and a
\* task whose list is not in the order of time, followed by another task
RepeatTask == [StoredTask EXCEPT !.reminders = <<TimeStep, TimeStep>>]

UnorderedTask == [StoredTask EXCEPT !.reminders = <<2 * TimeStep, TimeStep>>]

ScanStores == {<<RepeatTask>>, <<UnorderedTask, OtherStoredTask>>}

ScanInit ==
    /\ now = 0
    /\ tasks \in ScanStores
    /\ notificationTask = NoNotification
    /\ snoozedTasks = {}
    /\ triggeredReminders = {}
    /\ nextTick = POLL_INTERVAL_MS
    /\ snoozeTimers = {}
    /\ isLoading = FALSE
    /\ messages = <<>>
    /\ turns = <<>>
    /\ turnCount = 0
    /\ fired = <<>>
    /\ activeKey = <<>>
    /\ snoozedAt = <<>>

SpecScan == ScanInit /\ [][Next]_vars

\* SpecFrame: the scheduler over the horizon of Spec together with one chat turn
\* that is submitted late in the horizon, when a snooze may be about to expire,
\* and whose stream is one chunk with one invocation and no text
LateSubmit ==
    /\ now >= LateSteps * TimeStep
    /\ Submit

FrameNext ==
    \/ Scheduler
    \/ \E t \in snoozeTimers : SnoozeExpire(t)
    \/ AdvanceTime
    \/ LateSubmit
    \/ \E i \in DOMAIN turns : BeginTurn(i)
    \/ \E i \in DOMAIN turns : StreamChunk(i, <<>>, TRUE, 1)
    \/ \E i \in DOMAIN turns : StreamEnd(i)
    \/ \E i \in DOMAIN turns : Dispatch(i)
    \/ \E i \in DOMAIN turns : Finalize(i)
    \/ \E i \in DOMAIN turns : TurnCatch(i)

SpecFrame == ChatInit /\ [][FrameNext]_vars

\* SpecGrow: the steps of SpecFrame over a store of one task, two reminders of
\* which are due in the first tick
GrowInit ==
    /\ now = 0
    /\ tasks = <<UnorderedTask>>
    /\ notificationTask = NoNotification
    /\ snoozedTasks = {}
    /\ triggeredReminders = {}
    /\ nextTick = POLL_INTERVAL_MS
    /\ snoozeTimers = {}
    /\ isLoading = FALSE
    /\ messages = <<>>
    /\ turns = <<>>
    /\ turnCount = 0
    /\ fired = <<>>
    /\ activeKey = <<>>
    /\ snoozedAt = <<>>

SpecGrow == GrowInit /\ [][FrameNext]_vars

\* SpecToast: the scheduler over stores of one task with a due date, whose
\* reminders are before the due date, or at the due date and after it; the toast
\* recomputes the time remaining when it is displayed and every second from then
\* on (setInterval of 1000 ms), so an automatic close that is enabled is taken
LateTask == [StoredTask EXCEPT !.reminders = <<3 * TimeStep, 4 * TimeStep>>]

ToastStores == {<<StoredTask>>, <<LateTask>>}

ToastInit ==
    /\ now = 0
    /\ tasks \in ToastStores
    /\ notificationTask = NoNotification
    /\ snoozedTasks = {}
    /\ triggeredReminders = {}
    /\ nextTick = POLL_INTERVAL_MS
    /\ snoozeTimers = {}
    /\ isLoading = FALSE
    /\ messages = <<>>
    /\ turns = <<>>
    /\ turnCount = 0
    /\ fired = <<>>
    /\ activeKey = <<>>
    /\ snoozedAt = <<>>

SpecToast == ToastInit /\ [][Next]_vars /\ WF_vars(ToastAutoClose)

\* ================================================================ claims
TaskOf(key) == {tasks[i] : i \in {j \in DOMAIN tasks : tasks[j].id = key[1]}}

\* the keys a step surfaces
Surfaced == {k \in DOMAIN fired' : Count(fired', k) > Count(fired, k)}

\* C1: a pair (task id, reminder) is surfaced as a notification at most once, and
\* the tick that surfaces it runs at a time now with now - 30 s < reminder <= now.
C1_OnceAndInWindow ==
    [][\A k \in Surfaced :
          /\ Count(fired, k) = 0
          /\ Count(fired', k) = 1
          /\ notificationTask' # NoNotification
          /\ notificationTask'[1].id = k[1]
          /\ now - CHECK_WINDOW_MS < k[2]
          /\ k[2] <= now]_vars

\* a reminder was surfaced and the ticks went on after its window had passed
C1_Witness ==
    \E k \in DOMAIN fired :
        /\ fired[k] = 1
        /\ now >= k[2] + CHECK_WINDOW_MS
        /\ notificationTask = NoNotification
        /\ \E t \in TaskOf(k) : ~t.isCompleted /\ t.id \notin snoozedTasks

\* a reminder that is due in the window of the tick about to run
DueNow(task) ==
    \E j \in DOMAIN task.reminders :
        /\ IsDue(task.reminders[j], now)
        /\ <<task.id, task.reminders[j]>> \notin triggeredReminders

\* C2: at most one notification is active; a tick that runs while one is active
\* leaves the active notification, the triggered set and the snoozed set unchanged.
C2_TickWhileActive ==
    [][/\ Len(notificationTask') <= 1
       /\ (PollTick /\ notificationTask # NoNotification)
             => UNCHANGED <<notificationTask, triggeredReminders, snoozedTasks>>]_vars

\* a tick is about to run while a notification is active and another reminder is due
C2_Witness ==
    /\ notificationTask # NoNotification
    /\ nextTick = now
    /\ \E i \in DOMAIN tasks :
          ~tasks[i].isCompleted /\ tasks[i].id \notin snoozedTasks /\ DueNow(tasks[i])

\* C3: a tick surfaces, and marks as triggered, only a reminder of a task that is
\* in the store, not completed, not snoozed and holds that reminder.
C3_SkipsCompletedAndSnoozed ==
    [][PollTick =>
          /\ \A k \in triggeredReminders' \ triggeredReminders :
                \E t \in TaskOf(k) :
                    /\ ~t.isCompleted
                    /\ t.id \notin snoozedTasks
                    /\ k[2] \in Range(t.reminders)
                    /\ notificationTask' = <<t>>
          /\ notificationTask' # notificationTask =>
                /\ ~notificationTask'[1].isCompleted
                /\ notificationTask'[1].id \notin snoozedTasks
                /\ notificationTask'[1].reminders # <<>>]_vars

\* a tick is about to run over a completed task that holds a reminder due now
C3_Witness ==
    /\ notificationTask = NoNotification
    /\ nextTick = now
    /\ \E i \in DOMAIN tasks : tasks[i].isCompleted /\ DueNow(tasks[i])

\* C4: snooze(X) puts X into the snoozed set and clears the notification; X stays
\* in the set until exactly 5 minutes after the snooze, when the timer removes
\* it; no tick surfaces a reminder of X while X is in the set.
C4_SnoozeFiveMinutes ==
    /\ [](\A id \in snoozedTasks :
             /\ id \in DOMAIN snoozedAt
             /\ now <= snoozedAt[id] + SNOOZE_DURATION_MS)
    /\ [][/\ Snooze => /\ notificationTask[1].id \in snoozedTasks'
                       /\ notificationTask' = NoNotification
          /\ \A id \in snoozedTasks \ snoozedTasks' :
                now = snoozedAt[id] + SNOOZE_DURATION_MS
          /\ \A k \in Surfaced : k[1] \notin snoozedTasks]_vars

\* the five minutes of a snoozed task are over (its timer is due), and a reminder
\* of the task fell into them without being surfaced
C4_Witness ==
    \E id \in snoozedTasks :
        /\ now = snoozedAt[id] + SNOOZE_DURATION_MS
        /\ \E i \in DOMAIN tasks :
              /\ tasks[i].id = id
              /\ ~tasks[i].isCompleted
              /\ \E j \in DOMAIN tasks[i].reminders :
                    /\ tasks[i].reminders[j] > snoozedAt[id]
                    /\ tasks[i].reminders[j] < now
                    /\ <<id, tasks[i].reminders[j]>> \notin triggeredReminders

\* C5 (as claimed): after markAsDone the task of the notification is completed
\* and no notification is active.
C5_MarkAsDoneCompletes ==
    [][MarkAsDone =>
          /\ notificationTask' = NoNotification
          /\ \A i \in DOMAIN tasks' :
                tasks'[i].id = notificationTask[1].id =>
                    tasks'[i].isCompleted /\ tasks'[i].completedAt # NoTime]_vars

\* C6: dismiss clears the notification and leaves the tasks, the snoozed set and
\* the triggered set as they are; the dismissed reminder stays triggered and a
\* triggered reminder is never surfaced again.
C6_DismissOnlyCloses ==
    /\ [](Range(activeKey) \subseteq triggeredReminders)
    /\ [][/\ Dismiss => /\ notificationTask' = NoNotification
                        /\ UNCHANGED <<tasks, snoozedTasks, triggeredReminders>>
          /\ \A k \in triggeredReminders :
                k \in triggeredReminders' /\ Count(fired', k) = Count(fired, k)]_vars

\* a reminder was surfaced and closed, its task was never completed nor snoozed,
\* and the ticks went on
C6_Witness ==
    /\ notificationTask = NoNotification
    /\ snoozedTasks = {}
    /\ \E k \in triggeredReminders :
          /\ now >= k[2] + 2 * POLL_INTERVAL_MS
          /\ \E t \in TaskOf(k) : ~t.isCompleted /\ t.completedAt = NoTime

\* a turn whose batch is done and that is about to reply
Ready(i) == turns[i].pc = "dispatch" /\ ~CanDispatch(i)

RECURSIVE FirstNonEmpty(_)
FirstNonEmpty(candidates) ==
    IF candidates = <<>> THEN Empty
    ELSE IF Head(candidates) # Empty THEN Head(candidates)
    ELSE FirstNonEmpty(Tail(candidates))

\* C7 (as claimed): the confirmation chosen for a turn is the first one present
\* in the order deletion > update > analysis > schedule > creation/reminder.
C7_DeletionFirst ==
    \A i \in DOMAIN turns :
        Ready(i) =>
            FinalConfirmation(turns[i]) =
                FirstNonEmpty(<<turns[i].taskDeletedMessage, turns[i].updateMessage,
                                turns[i].analysisMessage, turns[i].scheduleMessage,
                                CreationConfirmation(turns[i])>>)

\* C7: the confirmation chosen for a turn is the first one present in the order
\* schedule > analysis > update > deletion > creation/reminder.
C7_ScheduleFirst ==
    \A i \in DOMAIN turns :
        Ready(i) =>
            FinalConfirmation(turns[i]) =
                FirstNonEmpty(<<turns[i].scheduleMessage, turns[i].analysisMessage,
                                turns[i].updateMessage, turns[i].taskDeletedMessage,
                                CreationConfirmation(turns[i])>>)

\* a turn with both a deletion confirmation and a schedule report is about to reply
C7_Witness ==
    \E i \in DOMAIN turns :
        /\ Ready(i)
        /\ turns[i].taskDeletedMessage # Empty
        /\ turns[i].scheduleMessage # Empty

\* C8 (as claimed): a turn emits exactly one model message: the tool confirmation
\* when there is one, the raw text only when there is none.
C8_TextLast ==
    [][\A i \in DOMAIN turns :
          Finalize(i) =>
              LET text == Trim(turns[i].aiResponseText)
                  confirmation == FinalConfirmation(turns[i])
              IN messages' = Append(messages, Message("model",
                                 IF confirmation # Empty THEN confirmation
                                 ELSE TextMessage(text)))]_vars

\* C8: a turn emits at most one model message: the raw text when its trimmed text
\* is not empty, whether or not a tool call produced a confirmation; the chosen
\* confirmation only when the trimmed text is empty; nothing when both are empty.
\* A turn that fails emits exactly the error message.
C8_TextFirst ==
    [][\A i \in DOMAIN turns :
          /\ Finalize(i) =>
                LET text == Trim(turns[i].aiResponseText)
                    confirmation == FinalConfirmation(turns[i])
                IN /\ text # <<>> =>
                         messages' = Append(messages, Message("model", TextMessage(text)))
                   /\ text = <<>> /\ confirmation # Empty =>
                         messages' = Append(messages, Message("model", confirmation))
                   /\ text = <<>> /\ confirmation = Empty => messages' = messages
          /\ TurnCatch(i) =>
                /\ Len(messages') = Len(messages) + 1
                /\ Len(messages'[Len(messages')].body) = 1
                /\ messages'[Len(messages')].body[1].kind \in {"quota", "error"}]_vars

\* a turn with both text and a tool confirmation is about to reply
C8_Witness ==
    \E i \in DOMAIN turns :
        /\ Ready(i)
        /\ Trim(turns[i].aiResponseText) # <<>>
        /\ FinalConfirmation(turns[i]) # Empty

\* C9 (as claimed): an invocation reads the store as the earlier invocations of
\* the batch left it: deleteTask of an id that is no longer in the store gets
\* the not-found outcome.
C9_ReadsCurrentStore ==
    [][\A i \in DOMAIN turns : \A id \in CallIds(i) :
          (DoDeleteTask(i, id, TRUE) /\ id \notin Ids(tasks)) =>
              turns'[i].taskDeletedMessage = <<Sentence("notFound", <<>>, 0)>>]_vars

\* C10 (as claimed): scheduleReminder(id, t) on a task in the store appends t to
\* the reminder list of that task and changes nothing else in the store.
C10_AppendOnly ==
    [][\A i \in DOMAIN turns : \A id \in CallIds(i) : \A t \in ReminderTimes :
          (DoScheduleReminder(i, id, t, TRUE) /\ id \in Ids(tasks)) =>
              tasks' = [k \in DOMAIN tasks |->
                           IF tasks[k].id = id
                           THEN [tasks[k] EXCEPT !.reminders = Append(@, t)]
                           ELSE tasks[k]]]_vars

OnlyCreations(turn) ==
    /\ Trim(turn.aiResponseText) = <<>>
    /\ turn.scheduledReminders = <<>>
    /\ turn.taskDeletedMessage = Empty
    /\ turn.updateMessage = Empty
    /\ turn.analysisMessage = Empty
    /\ turn.scheduleMessage = Empty

C13_IdsUnique ==
    \A i \in DOMAIN tasks : \A j \in DOMAIN tasks : i # j => tasks[i].id # tasks[j].id

C15_DeleteByStore ==
    [][\A i \in DOMAIN turns : \A id \in CallIds(i) :
          DoDeleteTask(i, id, TRUE) =>
              IF id \in Ids(tasks)
              THEN /\ Len(tasks') = Len(tasks) - 1
                   /\ tasks' = Filter(tasks, id)
                   /\ turns'[i].taskDeletedMessage =
                          <<Sentence("removed", <<Find(tasks, id)[1].text>>, 0)>>
              ELSE /\ tasks' = tasks
                   /\ turns'[i].taskDeletedMessage = <<Sentence("notFound", <<>>, 0)>>]_vars

\* C16 (as claimed): updateTask and scheduleReminder of an id that is not in the
\* store leave the store as it is and report the failure as data: updateTask
\* answers with the not-found message, scheduleReminder confirms nothing, and the
\* batch goes on (persistence working).
C16_UnknownIdIsData ==
    [][\A i \in DOMAIN turns : \A id \in CallIds(i) :
          id \notin Ids(tasks) =>
              /\ \A u \in UpdateArgsSet :
                    DoUpdateTask(i, id, u, TRUE) =>
                        /\ tasks' = tasks
                        /\ turns'[i].pc = "dispatch"
                        /\ turns'[i].updateMessage = <<Sentence("updateNotFound", <<>>, 0)>>
              /\ \A t \in ReminderTimes :
                    DoScheduleReminder(i, id, t, TRUE) =>
                        /\ tasks' = tasks
                        /\ turns'[i].pc = "dispatch"
                        /\ turns'[i].scheduledReminders = turns[i].scheduledReminders]_vars

\* the kinds of the sentences of a message
Kinds(message) == {message[k].kind : k \in DOMAIN message}

\* the sentences that describe a change other than that of the due date
OtherChanges ==
    {"renamed", "priority", "category", "type", "customSet", "customRemoved", "status"}

\* the arguments of the updateTask calls
AllUpdates == ProbeUpdates \cup UpdateArgsSet

\* what every step of an updateTask invocation of turn i does
UpdateStep(i) ==
    /\ CanDispatch(i)
    /\ i \in DOMAIN turns'
    /\ turns'[i].functionCalls = turns[i].functionCalls - 1
    /\ turns'[i].updateMessage # Empty
    /\ turns'[i].createdTasks = turns[i].createdTasks
    /\ turns'[i].taskDeletedMessage = turns[i].taskDeletedMessage
    /\ turns'[i].scheduleMessage = turns[i].scheduleMessage
    /\ turns'[i].analysisMessage = turns[i].analysisMessage

\* C17 (as claimed): updateTask describes a change of a field only when the value
\* supplied differs from the value the stored task has, and when no supplied value
\* differs it answers with the no-changes message and leaves the store as it is.
C17_DiffOverEveryField ==
    [][\A i \in DOMAIN turns : \A u \in AllUpdates :
          (UpdateStep(i) /\ ProbeId \in Ids(tasks) /\ DoUpdateTask(i, ProbeId, u, TRUE)) =>
              LET task == Find(tasks, ProbeId)[1]
                  kinds == Kinds(turns'[i].updateMessage)
                  differs ==
                      \/ u.newName # NoText /\ u.newName # task.text
                      \/ u.newDueDate # NoTime /\ u.newDueDate # task.dueDate
                      \/ u.newPriority # NoText /\ u.newPriority # task.priority
                      \/ u.newCategory # NoText /\ u.newCategory # task.category
                      \/ u.newType # NoText /\ u.newType # task.type
                      \/ /\ u.hasCustom
                         /\ u.newCustomNotificationTime # task.customNotificationTime
                      \/ /\ u.newStatus # NoText
                         /\ (u.newStatus = "completed") # task.isCompleted
              IN /\ "renamed" \in kinds => u.newName # task.text
                 /\ "deadline" \in kinds => u.newDueDate # task.dueDate
                 /\ "priority" \in kinds => u.newPriority # task.priority
                 /\ "category" \in kinds => u.newCategory # task.category
                 /\ "type" \in kinds => u.newType # task.type
                 /\ kinds \cap {"customSet", "customRemoved"} # {} =>
                        u.newCustomNotificationTime # task.customNotificationTime
                 /\ "status" \in kinds => (u.newStatus = "completed") # task.isCompleted
                 /\ ~differs =>
                        /\ tasks' = tasks
                        /\ turns'[i].updateMessage =
                               <<Sentence("noChanges", <<task.text>>, 0)>>]_vars

Instants(message) ==
    IF message # Empty /\ message[1].kind = "schedule"
    THEN [k \in DOMAIN message[1].items |-> message[1].items[k].notify_at]
    ELSE <<>>

\* the pending tasks that generateNotificationSchedule of turn i reads
Pending(i) == {task \in Range(turns[i].tasks) : ~task.isCompleted}

\* a sequence holding x when the condition holds
When(condition, x) == IF condition THEN <<x>> ELSE <<>>

\* C19 (as claimed): for a pending task with a due date and a custom notification
\* time X the schedule holds exactly X when X is later than now and nothing when
\* it is not, whatever the priority, type and due date.
C19_CustomOnly ==
    [][\A i \in DOMAIN turns :
          (DoGenerateSchedule(i) /\ Len(turns[i].tasks) = 1) =>
              \A task \in Pending(i) :
                  (task.customNotificationTime # NoTime /\ task.dueDate # NoTime) =>
                      Range(Instants(turns'[i].scheduleMessage))
                          = IF task.customNotificationTime > now
                            THEN {task.customNotificationTime}
                            ELSE {}]_vars

\* C19: for a pending task with a due date D and a custom notification time X the
\* schedule holds X when X is later than now, followed, when the priority is high,
\* by D - 24 h when that is later than now and 60 s or more away from X; a task
\* without a due date gets no instant.
C19_CustomAndDayBefore ==
    [][\A i \in DOMAIN turns :
          (DoGenerateSchedule(i) /\ Len(turns[i].tasks) = 1) =>
              \A task \in Pending(i) :
                  task.customNotificationTime # NoTime =>
                      LET X == task.customNotificationTime
                          dayBefore == task.dueDate - 24 * 60 * 60 * 1000
                      IN Instants(turns'[i].scheduleMessage)
                             = IF task.dueDate = NoTime THEN <<>>
                               ELSE When(X > now, X)
                                    \o When(/\ task.priority = "high"
                                            /\ dayBefore > now
                                            /\ (X - dayBefore >= 60000
                                                   \/ dayBefore - X >= 60000),
                                            dayBefore)]_vars

\* a schedule of the custom instant and the day before the due date
C19_Witness ==
    \E i \in DOMAIN turns :
        /\ \E task \in Pending(i) :
               /\ task.customNotificationTime = 2 * HOUR_MS
               /\ task.priority = "high"
        /\ Instants(turns[i].scheduleMessage) = <<2 * HOUR_MS, HOUR_MS>>

\* the offset of the default notification in minutes, by type
OffsetMinutes(type) ==
    CASE type = "Appointment" -> 60
      [] type = "Meeting" -> 90
      [] type = "Assignment" -> 30
      [] type = "Other" -> 15
      [] type = NoText -> 15

\* C20: for a pending task without a custom notification time and with a due date
\* D the default instant is D minus 60 minutes for an appointment, 90 for a
\* meeting, 30 for an assignment and 15 for another or no type: the schedule
\* holds it when it is later than now, and besides it only the day before the due
\* date of a task of high priority.
C20_DefaultOffsetByType ==
    [][\A i \in DOMAIN turns :
          (DoGenerateSchedule(i) /\ Len(turns[i].tasks) = 1) =>
              \A task \in Pending(i) :
                  (task.customNotificationTime = NoTime /\ task.dueDate # NoTime) =>
                      LET default == task.dueDate - OffsetMinutes(task.type) * 60 * 1000
                          dayBefore == task.dueDate - 24 * 60 * 60 * 1000
                      IN Instants(turns'[i].scheduleMessage)
                             = When(default > now, default)
                               \o When(task.priority = "high" /\ dayBefore > now,
                                       dayBefore)]_vars

\* the schedule of an assignment of medium priority due in an hour is the single
\* instant half an hour before it
C20_Witness ==
    \E i \in DOMAIN turns :
        /\ \E task \in Pending(i) :
               /\ task.type = "Assignment"
               /\ task.priority = "medium"
               /\ task.dueDate = now + HOUR_MS
               /\ task.customNotificationTime = NoTime
        /\ Instants(turns[i].scheduleMessage) = <<now + 30 * MINUTE_MS>>

\* the first candidate of a task with a due date: the custom notification time,
\* or the due date minus the offset of the type
FirstCandidate(task) ==
    IF task.customNotificationTime # NoTime
    THEN task.customNotificationTime
    ELSE task.dueDate - OffsetMinutes(task.type) * 60 * 1000

\* C21: for a pending task with a due date D the schedule holds, besides the
\* first candidate, one more instant exactly when the priority is high, D - 24 h
\* is later than now and the first candidate is 60 s or more away from D - 24 h;
\* that instant is D - 24 h; a task of medium or low priority never gets it.
C21_DayBeforeForHighOnly ==
    [][\A i \in DOMAIN turns :
          (DoGenerateSchedule(i) /\ Len(turns[i].tasks) = 1) =>
              \A task \in Pending(i) :
                  task.dueDate # NoTime =>
                      LET instants == Instants(turns'[i].scheduleMessage)
                          first == FirstCandidate(task)
                          dayBefore == task.dueDate - 24 * 60 * 60 * 1000
                          more == Len(instants) - (IF first > now THEN 1 ELSE 0)
                      IN /\ more \in {0, 1}
                         /\ more = 1 <=> /\ task.priority = "high"
                                         /\ dayBefore > now
                                         /\ (first - dayBefore >= 60000
                                                \/ dayBefore - first >= 60000)
                         /\ more = 1 => instants[Len(instants)] = dayBefore]_vars

\* the schedule of a task of high priority due in 25 hours, without a custom
\* notification time, holds the default instant and the day before the due date
C21_Witness ==
    \E i \in DOMAIN turns :
        /\ \E task \in Pending(i) :
               /\ task.priority = "high"
               /\ task.customNotificationTime = NoTime
               /\ task.dueDate = now + 25 * HOUR_MS
        /\ Len(Instants(turns[i].scheduleMessage)) = 2
        /\ Instants(turns[i].scheduleMessage)[2] = now + HOUR_MS

\* C22 (as claimed): every entry of a generated schedule has an instant later than
\* now and belongs to a task of the store that is not completed and has a due
\* date, and the nothing-to-schedule message is returned exactly when there is
\* no entry.
C22_EntriesOfPendingTasks ==
    [][\A i \in DOMAIN turns :
          DoGenerateSchedule(i) =>
              LET message == turns'[i].scheduleMessage[1]
              IN /\ \A k \in DOMAIN message.items :
                        /\ message.items[k].notify_at > now
                        /\ \E task \in Range(tasks) :
                               /\ task.text = message.items[k].task
                               /\ task.dueDate = message.items[k].due
                               /\ task.dueDate # NoTime
                               /\ ~task.isCompleted
                 /\ message.kind = (IF message.items = <<>> THEN "noSchedule"
                                    ELSE "schedule")]_vars

\* C23 (as claimed): analyzeProductivityPatterns answers with the need-more-history
\* message, without a call of the collaborator, when the store holds fewer than
\* five tasks, answers with what the one call of the collaborator yields when it
\* holds five or more, and leaves the store as it is.
C23_AnalysisByStoreSize ==
    [][\A i \in DOMAIN turns : \A outcome \in AnalysisOutcomes :
          DoAnalyze(i, outcome) =>
              /\ tasks' = tasks
              /\ turns'[i].analysisMessage =
                     IF Len(tasks) < 5
                     THEN <<Sentence("needHistory", <<>>, 0)>>
                     ELSE <<Sentence(IF outcome = "analysis" THEN "analysis"
                                     ELSE IF outcome \in {"quota", "exhausted"}
                                     THEN "analysisQuota"
                                     ELSE "analysisFailed", <<>>, 0)>>]_vars

\* the step ends the batch of turn i in the catch block
Fails(i) == CanDispatch(i) /\ i \in DOMAIN turns' /\ turns'[i].pc = "failed"

\* C24: a create, update, schedule-reminder or delete whose persistence write
\* fails leaves the task list as the operation made it: with the new task
\* appended, the task replaced by its updated copy, the reminder appended, the
\* task removed (a toggle changes the list before its write and reads nothing
\* of the write's result).
C24_FailedWriteKeepsMutation ==
    [][\A i \in DOMAIN turns :
          Fails(i) =>
              /\ \A args \in CreateArgsSet :
                    DoCreateTask(i, args, FALSE) =>
                        /\ Len(tasks') = Len(tasks) + 1
                        /\ SubSeq(tasks', 1, Len(tasks)) = tasks
                        /\ tasks'[Len(tasks')] = CreatedTask(args)
              /\ \A id \in CallIds(i) :
                    /\ \A u \in UpdateArgsSet :
                          DoUpdateTask(i, id, u, FALSE) =>
                              tasks' = Replaced(tasks, id,
                                           UpdatedTask(Find(turns[i].tasks, id)[1], u))
                    /\ \A r \in ReminderTimes :
                          DoScheduleReminder(i, id, r, FALSE) =>
                              tasks' = Replaced(tasks, id,
                                           [Find(turns[i].tasks, id)[1] EXCEPT
                                               !.reminders = Append(@, r)])
                    /\ DoDeleteTask(i, id, FALSE) =>
                          /\ id \notin Ids(tasks')
                          /\ tasks' = Filter(tasks, id)]_vars

\* the write of a creation has failed and the created task is in the store
C24_Witness ==
    \E i \in DOMAIN turns :
        /\ turns[i].pc = "failed"
        /\ turns[i].error = "other"
        /\ turns[i].createdTasks = <<>>
        /\ Len(tasks) = Len(turns[i].tasks) + 1
        /\ tasks[Len(tasks)].text = "b"

\* C25 (as claimed): a tool call whose persistence write fails does not stop the
\* batch: after each call of a batch the turn is still in its dispatch loop, with
\* the calls that follow still to be dispatched, and has not gone to the catch
\* block that ends it with the error message.
C25_WriteNeverStopsBatch ==
    [][\A i \in DOMAIN turns :
          (CanDispatch(i) /\ i \in DOMAIN turns') =>
              /\ turns'[i].pc = "dispatch"
              /\ turns'[i].functionCalls = turns[i].functionCalls - 1]_vars

\* the analysis of the turn has ended in the catch block of its handler
AnalysisFailedIn(turn) ==
    /\ turn.analysisMessage # Empty
    /\ turn.analysisMessage[1].kind \in {"analysisQuota", "analysisFailed"}

\* the step clears the loading flag and emits one message, an error message
ErrorEmitted ==
    /\ ~isLoading'
    /\ Len(messages') = Len(messages) + 1
    /\ SubSeq(messages', 1, Len(messages)) = messages
    /\ LET body == messages'[Len(messages')].body
       IN /\ Len(body) = 1
          /\ body[1].kind \in {"quota", "error", "analysisQuota", "analysisFailed"}
          /\ Len(body[1].texts) <= 100

C27_ChunksAccumulate ==
    [][\A i \in DOMAIN turns :
          /\ \A text \in ChunkTexts, n \in 0..MaxCalls :
                Chunk(i, text, TRUE, n) =>
                    turns'[i].functionCalls = turns[i].functionCalls + n
          /\ turns[i].pc = "streaming" => tasks' = tasks]_vars

\* the step is the dispatch of an invocation of some turn
DispatchStep ==
    \E i \in DOMAIN turns : CanDispatch(i) /\ i \in DOMAIN turns' /\ turns'[i] # turns[i]

\* C28: a poll tick, a snooze, the expiry of a snooze timer and a dismissal leave
\* the task list as it is; a step that changes the task list is markAsDone, a
\* toggle of the goals view or a tool dispatch, and markAsDone changes the task
\* of the notification only; a tool dispatch leaves the snoozed set, the
\* triggered set and the active notification as they are.
C28_SchedulerFrame ==
    [][/\ (PollTick \/ Snooze \/ Dismiss \/ ToastAutoClose
              \/ \E t \in snoozeTimers : SnoozeExpire(t)) => tasks' = tasks
       /\ MarkAsDone =>
              /\ Len(tasks') = Len(tasks)
              /\ \A k \in DOMAIN tasks :
                     tasks'[k] # tasks[k] => tasks[k].id = notificationTask[1].id
       /\ tasks' # tasks =>
              \/ DispatchStep
              \/ MarkAsDone
              \/ \E id \in Ids(tasks) : ToggleTask(id)
       /\ DispatchStep =>
              /\ snoozedTasks' = snoozedTasks
              /\ triggeredReminders' = triggeredReminders
              /\ notificationTask' = notificationTask]_vars

\* a turn has deleted the task while it was snoozed: the task is still in the
\* snoozed set and its reminder in the triggered set
C28_Witness ==
    \E i \in DOMAIN turns :
        /\ turns[i].pc = "dispatch"
        /\ turns[i].functionCalls = 0
        /\ turns[i].taskDeletedMessage # Empty
        /\ tasks = <<>>
        /\ snoozedTasks = Ids(turns[i].tasks)
        /\ triggeredReminders # {}

\* the tasks whose reminder list holds the instant r at two places or more
HeldTwice(r) ==
    {task \in Range(tasks) :
        \E j \in DOMAIN task.reminders, k \in DOMAIN task.reminders :
            j # k /\ task.reminders[j] = r /\ task.reminders[k] = r}

\* C29 (as claimed): the two entries of an instant that a reminder list holds
\* twice fire independently: when a tick surfaces the task for one of them, the
\* other is not yet in the triggered set and can still qualify.
C29_EntriesFireIndependently ==
    [][\A key \in Surfaced :
          \A task \in HeldTwice(key[2]) :
              task.id = key[1] =>
                  \E j \in DOMAIN task.reminders :
                      /\ task.reminders[j] = key[2]
                      /\ ReminderId(task, task.reminders[j]) \notin triggeredReminders']_vars

\* C29: the two entries of an instant that a reminder list holds twice have the
\* same composite key: the task is surfaced for that instant once, never twice,
\* and once it was surfaced neither entry qualifies again.
C29_RepeatedInstantFiresOnce ==
    \A key \in DOMAIN fired :
        \A task \in HeldTwice(key[2]) :
            task.id = key[1] =>
                /\ fired[key] <= 1
                /\ fired[key] = 1 => /\ key \in triggeredReminders
                                      /\ ~Qualifies(task, key[2])

\* the instant that the list holds twice was surfaced once, its window has
\* passed with the ticks going on, and the task is neither completed nor snoozed
C29_Witness ==
    \E key \in DOMAIN fired :
        /\ fired[key] = 1
        /\ now >= key[2] + 2 * POLL_INTERVAL_MS
        /\ notificationTask = NoNotification
        /\ \E task \in HeldTwice(key[2]) :
               task.id = key[1] /\ ~task.isCompleted /\ task.id \notin snoozedTasks

\* the places <<task, reminder>> of the store whose reminder qualifies in a tick
\* that runs now, and the order of the scan
Places == UNION {{<<i, j>> : j \in DOMAIN tasks[i].reminders} : i \in DOMAIN tasks}

QualifyingPlaces ==
    {p \in Places :
        LET task == tasks[p[1]]
            r == task.reminders[p[2]]
        IN /\ ~task.isCompleted
           /\ task.id \notin snoozedTasks
           /\ r <= now
           /\ r > now - 30 * 1000
           /\ <<task.id, r>> \notin triggeredReminders}

Before(p, q) == p[1] < q[1] \/ (p[1] = q[1] /\ p[2] <= q[2])

\* C30: a tick that runs while no notification is active and finds qualifying
\* pairs surfaces the task of the first one in the order of the scan (tasks in
\* the order of the store, reminders in the order of the list) and adds the key
\* of that pair, and no other key, to the triggered set.
C30_FirstPairOnly ==
    [][(PollTick /\ notificationTask = NoNotification /\ QualifyingPlaces # {}) =>
          LET first == CHOOSE p \in QualifyingPlaces :
                           \A q \in QualifyingPlaces : Before(p, q)
              task == tasks[first[1]]
          IN /\ notificationTask' = <<task>>
             /\ triggeredReminders' =
                    triggeredReminders \cup {<<task.id, task.reminders[first[2]]>>}]_vars

\* a tick has just surfaced the first task of the store while a reminder of the
\* second task qualified too
C30_Witness ==
    /\ nextTick = now + POLL_INTERVAL_MS
    /\ Len(tasks) = 2
    /\ notificationTask = <<tasks[1]>>
    /\ activeKey # <<>>
    /\ activeKey[1] \in triggeredReminders
    /\ \E p \in QualifyingPlaces : p[1] = 2

\* the pairs that qualify in a tick that runs now without being the one surfaced
DeferredPlaces ==
    {p \in QualifyingPlaces :
        ReminderId(tasks[p[1]], tasks[p[1]].reminders[p[2]]) \notin triggeredReminders'}

\* C31 (as claimed): a pair that qualifies in a tick and is not surfaced, because
\* an earlier pair matched first, is deferred to the next tick: its instant lies
\* in the window of the tick that the interval timer runs next.
C31_DeferredToNextTick ==
    [][(PollTick /\ notificationTask = NoNotification) =>
          \A p \in DeferredPlaces :
              IsDue(tasks[p[1]].reminders[p[2]], nextTick')]_vars

\* the reminders of the task of a snooze timer whose instant elapsed while the
\* task was snoozed, the task being in the store and not completed
ElapsedInSnooze(t) ==
    {r \in UNION {Range(task.reminders) : task \in Range(tasks)} :
        /\ \E task \in Range(tasks) :
               task.id = t.id /\ ~task.isCompleted /\ r \in Range(task.reminders)
        /\ t.id \in DOMAIN snoozedAt
        /\ snoozedAt[t.id] < r
        /\ r <= now}

\* C32 (as claimed): a reminder whose instant elapses while its task is snoozed is
\* not put into the triggered set during the snooze, and when the snooze expires
\* the resumed checking covers it: its instant lies in the window of the tick
\* that runs next.
C32_ElapsedInSnoozeResumes ==
    [][/\ \A k \in triggeredReminders' \ triggeredReminders : k[1] \notin snoozedTasks
       /\ \A t \in snoozeTimers :
              SnoozeExpire(t) =>
                  \A r \in ElapsedInSnooze(t) :
                      /\ <<t.id, r>> \notin triggeredReminders
                      /\ IsDue(r, nextTick')]_vars

\* no invocation of the batch of turn i has been dispatched yet
Fresh(i) ==
    /\ CanDispatch(i)
    /\ turns[i].createdTasks = <<>>
    /\ turns[i].scheduledReminders = <<>>
    /\ turns[i].taskDeletedMessage = Empty
    /\ turns[i].analysisMessage = Empty
    /\ turns[i].updateMessage = Empty
    /\ turns[i].scheduleMessage = Empty

\* the fields of a task that an updateTask with the arguments u targets
Targets(u) ==
    (IF u.newName # NoText THEN {"text"} ELSE {})
    \cup (IF u.newDueDate # NoTime THEN {"dueDate"} ELSE {})
    \cup (IF u.newPriority # NoText THEN {"priority"} ELSE {})
    \cup (IF u.newCategory # NoText THEN {"category"} ELSE {})
    \cup (IF u.newType # NoText THEN {"type"} ELSE {})
    \cup (IF u.hasCustom THEN {"customNotificationTime"} ELSE {})
    \cup (IF u.newStatus # NoText THEN {"isCompleted", "completedAt"} ELSE {})

\* the store after the step is the store before it but for the fields named
KeptBut(fields) ==
    /\ Len(tasks') = Len(tasks)
    /\ \A k \in DOMAIN tasks :
           \A f \in (DOMAIN tasks[k]) \ fields : tasks'[k][f] = tasks[k][f]

\* C33 (as claimed): a scheduleReminder or an updateTask that is the first
\* invocation dispatched by its turn changes, in the store as the scheduler and
\* the goals view left it since the turn was submitted, only the fields it
\* targets: a task completed in between is still completed.
C33_InterveningChangeKept ==
    [][\A i \in DOMAIN turns :
          (Fresh(i) /\ tasks' # tasks) =>
              \A id \in Ids(tasks) :
                  /\ \A t \in ReminderTimes :
                         DoScheduleReminder(i, id, t, TRUE) => KeptBut({"reminders"})
                  /\ \A u \in UpdateArgsSet :
                         DoUpdateTask(i, id, u, TRUE) => KeptBut(Targets(u))]_vars

\* C34 (as claimed): turns are serialized: while a turn is in flight, from the
\* point at which it has set the loading flag until it has replied, the flag is
\* set, so that handleSubmit (line 850) accepts no second turn.
C34_LoadingWhileInFlight ==
    \A i \in DOMAIN turns : turns[i].pc # "accepted" => isLoading

\* the reminders of the task at place k of the store that have elapsed without
\* being surfaced and that the tick the timer is armed for would find in its
\* window, the task being neither completed nor snoozed and no notification active
Awaited(k) ==
    {r \in Range(tasks[k].reminders) :
        /\ ~Skipped(tasks[k])
        /\ notificationTask = NoNotification
        /\ ReminderId(tasks[k], r) \notin triggeredReminders
        /\ r <= now
        /\ IsDue(r, nextTick)}

\* C35 (as claimed): the windows of successive ticks cover time without gaps: a
\* change of the task list, of the snoozed set, of the triggered set or of the
\* active notification between two ticks does not postpone the next tick, so that
\* a reminder that has elapsed since the last tick, of a task that the change
\* leaves as it is, uncompleted and unsnoozed, is still in the window of the
\* next tick after the change.
C35_WindowsCoverTime ==
    [][(nextTick' # nextTick /\ ~PollTick) =>
          \A k \in DOMAIN tasks : \A r \in Awaited(k) :
              (/\ k \in DOMAIN tasks'
               /\ tasks'[k] = tasks[k]
               /\ tasks[k].id \notin snoozedTasks'
               /\ notificationTask' = NoNotification) => IsDue(r, nextTick')]_vars

\* C36 (as claimed): the task shown by an active notification is in the task
\* store and is not completed there.
C36_NotificationTaskIsPending ==
    notificationTask # NoNotification =>
        \E task \in Range(tasks) :
            task.id = notificationTask[1].id /\ ~task.isCompleted

\* a notification is active for a task whose due date is not later than now
Overdue ==
    /\ notificationTask # NoNotification
    /\ notificationTask[1].dueDate # NoTime
    /\ notificationTask[1].dueDate <= now

C38_TriggeredOnlyGrows ==
    [][/\ triggeredReminders \subseteq triggeredReminders'
       /\ triggeredReminders' # triggeredReminders => PollTick
       /\ Cardinality(triggeredReminders' \ triggeredReminders) <= 1]_vars

\* the reminder of the stored task was surfaced and snoozed, the snooze has
\* expired, and a turn has deleted the task and replied: the reminder is still in
\* the triggered set
C38_Witness ==
    /\ triggeredReminders = {ReminderId(UnorderedTask, UnorderedTask.reminders[1])}
    /\ tasks = <<>>
    /\ snoozedTasks = {}
    /\ snoozeTimers = {}
    /\ snoozedAt = <<>>
    /\ now >= SNOOZE_DURATION_MS
    /\ notificationTask = NoNotification
    /\ turns = <<>>
    /\ turnCount = 1
====
